---- MODULE Spec2Model ----
(***************************************************************************)
(* Model of the document assembler of pyapplebom (src/src/lib.rs):         *)
(* parse_bom_document and the helpers it calls (safe_bom_call,             *)
(* parse_optional_path_section, append_block_entry, bom_error_to_py,       *)
(* panic_payload_to_string).                                               *)
(*                                                                         *)
(* The apple_bom crate is an external library.  Its answers are inputs of  *)
(* the model, drawn in Init: the result of ParsedBom::parse, the parsed    *)
(* header / blocks index / variables index, the result of each of the five *)
(* section resolvers and the result of BomBlock::try_parse on each block.  *)
(* ParsedBom::block_data is a bounds-checked slice of the buffer.          *)
(*                                                                         *)
(* A Python dict is modelled by the set of keys that were set (keys), the  *)
(* keys whose value is None (nones) and the values the properties read.    *)
(* PyO3 container calls (set_item, append) are taken not to fail.          *)
(***************************************************************************)
EXTENDS Integers, Sequences, FiniteSets, TLC

VARIABLES
    data,                     \* the input buffer, by its length: [len]
    include_blocks,           \* flag of parse_bom_document
    include_raw_block_bytes,  \* flag of parse_bom_document
    lib,                      \* the answers of the apple_bom library
    pc,                       \* position in parse_bom_document
    doc,                      \* the document dict under construction
    parse_errors,             \* the parse_errors dict under construction
    blocks,                   \* the blocks list under construction
    index,                    \* loop variable of the block dump
    raised,                   \* the error raised to the caller, "none" if none
    calls                     \* library calls made so far, in order

vars == <<data, include_blocks, include_raw_block_bytes, lib, pc, doc,
          parse_errors, blocks, index, raised, calls>>

inputs == <<data, include_blocks, include_raw_block_bytes, lib>>

----------------------------------------------------------------------------
(* Bounds of the model *)

\* Entries of the blocks index and of the variables index, taken together
MaxEntries == 3

(* Program constant: lib.rs:149, raw_data.len() < 4 *)
TypeDetectMin == 4

----------------------------------------------------------------------------
(* Names *)

SectionNames == <<"bom_info", "paths", "hl_index", "size64", "vindex">>

Sections == {SectionNames[i] : i \in 1..Len(SectionNames)}

PathSections == Sections \ {"bom_info"}

\* The variants of apple_bom::format::BomBlock matched at lib.rs:171-248.
BlockKinds == {"Empty", "BomInfo", "File", "PathInfoIndex", "PathRecord",
               "PathRecordPointer", "Paths", "Tree", "TreePointer", "VIndex"}

\* Results of a section resolver (bom.bom_info(), bom.paths(), ...).
ResolverOutcomes == {"Value", "NoVar", "Err", "Panic"}

\* The block kinds the library's answers are drawn from.
DrawnKinds == {"Empty", "Paths"}

\* Results of BomBlock::try_parse, by catch_unwind at lib.rs:156: a panic, an
\* error, or a block of some kind.
TryParseOutcomes == {"Err", "Panic"} \cup (DrawnKinds \cap BlockKinds)

ErrText == "apple_bom::Error"

TooSmallMsg == "block too small for type detection"

EmptyMap == [k \in {} |-> ""]

NoHex == -1

----------------------------------------------------------------------------
(* Helpers of lib.rs *)

\* lib.rs:19-21
bom_error_to_py(err) == "BomParseError"

\* lib.rs:23-31; a payload is [type, text]
panic_payload_to_string(payload) ==
    IF payload.type = "&str" THEN payload.text
    ELSE IF payload.type = "String" THEN payload.text
    ELSE "unknown panic payload"

\* The payload the library's panics carry (a slice-index panic message).
LibPanic == [type |-> "String", text |-> "range end index out of range"]

\* safe_bom_call without the NoVar arm of lib.rs:45: a missing variable is
\* reported like any other error.
safe_bom_call_without_novar_arm(func) ==
    CASE func = "Value" -> [tag |-> "Value", msg |-> ""]
      [] func = "NoVar" -> [tag |-> "Error", msg |-> ErrText]
      [] func = "Err"   -> [tag |-> "Error", msg |-> ErrText]
      [] func = "Panic" -> [tag |-> "Error",
                            msg |-> "apple-bom parser panicked: "
                                      \o panic_payload_to_string(LibPanic)]

\* lib.rs:39-52; func is the outcome of running the closure
safe_bom_call(func) ==
    CASE func = "Value" -> [tag |-> "Value", msg |-> ""]
      [] func = "NoVar" -> [tag |-> "MissingVariable", msg |-> ""]
      [] func = "Err"   -> [tag |-> "Error", msg |-> ErrText]
      [] func = "Panic" -> [tag |-> "Error",
                            msg |-> "apple-bom parser panicked: "
                                      \o panic_payload_to_string(LibPanic)]

\* PyDict::set_item with a value that is not None
set_item(d, key) == [d EXCEPT !.keys = @ \cup {key}, !.nones = @ \ {key}]

\* PyDict::set_item(key, py.None())
set_none(d, key) == [d EXCEPT !.keys = @ \cup {key}, !.nones = @ \cup {key}]

\* ParsedBom::block_data(index) as called at lib.rs:136: the slice
\* data[file_offset .. file_offset + length], which exists only inside the buffer.
block_data(data_len, entry) ==
    IF entry.file_offset + entry.length <= data_len
    THEN [ok |-> TRUE, len |-> entry.length]
    ELSE [ok |-> FALSE, len |-> 0]

\* hex::encode(raw_data), by the length of the string it returns
hex_encode(len) == 2 * len

----------------------------------------------------------------------------
(* The block dump: append_block_entry, lib.rs:118-254 *)

\* lib.rs:131-140: the dict of one block before its kind is known
block_dict(idx, entry, include_raw, raw_len) ==
    [index       |-> idx,
     file_offset |-> entry.file_offset,
     length      |-> entry.length,
     raw_hex     |-> IF include_raw THEN hex_encode(raw_len) ELSE NoHex,
     kind        |-> "unset",
     parse_error |-> ""]

\* lib.rs:156-249: the match on catch_unwind(BomBlock::try_parse(bom, index))
parsed_block_dict(d, parsed) ==
    CASE parsed = "Panic" ->
            [d EXCEPT !.kind = "Unknown",
                      !.parse_error = "block parser panicked: "
                                        \o panic_payload_to_string(LibPanic)]
      [] parsed = "Err" ->
            [d EXCEPT !.kind = "Unknown", !.parse_error = ErrText]
      [] OTHER ->
            [d EXCEPT !.kind = parsed]

\* append_block_entry with the tests of lib.rs:142 and lib.rs:149 in the
\* other order: an empty block is first found too small.
append_block_entry_small_test_first(in, idx, blocks_list, fault) ==
    LET bl == in.lib.bom.blocks.blocks IN
    IF idx >= Len(bl)
    THEN [raised |-> "TypeError", list |-> blocks_list, called |-> <<>>]
    ELSE
      LET entry == bl[idx + 1]
          raw   == block_data(in.data_len, entry)
          d     == block_dict(idx, entry, in.include_raw_block_bytes, raw.len)
          bd    == [op |-> "block_data", index |-> idx]
          tp    == [op |-> "try_parse", index |-> idx]
      IN
      IF ~raw.ok
      THEN [raised |-> IF fault = "Err" THEN bom_error_to_py(ErrText)
                                        ELSE "PanicException",
            list   |-> blocks_list,
            called |-> <<bd>>]
      ELSE IF raw.len < TypeDetectMin
      THEN [raised |-> "none",
            list   |-> Append(blocks_list,
                              [d EXCEPT !.kind = "Unknown",
                                        !.parse_error = TooSmallMsg]),
            called |-> <<bd>>]
      ELSE IF raw.len = 0
      THEN [raised |-> "none",
            list   |-> Append(blocks_list, [d EXCEPT !.kind = "Empty"]),
            called |-> <<bd>>]
      ELSE [raised |-> "none",
            list   |-> Append(blocks_list,
                              parsed_block_dict(d, in.lib.try_parse[idx + 1])),
            called |-> <<bd, tp>>]

\* lib.rs:118-254.  in is the input of the decode, idx the 0-based block
\* index, fault the way block_data fails outside the buffer ("Err": it
\* returns an error; "Panic": it panics, which nothing catches here).
\* Returns the error raised ("none" if none), the list and the calls made.
append_block_entry(in, idx, blocks_list, fault) ==
    LET bl == in.lib.bom.blocks.blocks IN
    IF idx >= Len(bl)
    THEN [raised |-> "TypeError", list |-> blocks_list, called |-> <<>>]
    ELSE
      LET entry == bl[idx + 1]
          raw   == block_data(in.data_len, entry)
          d     == block_dict(idx, entry, in.include_raw_block_bytes, raw.len)
          bd    == [op |-> "block_data", index |-> idx]
          tp    == [op |-> "try_parse", index |-> idx]
      IN
      IF ~raw.ok
      THEN [raised |-> IF fault = "Err" THEN bom_error_to_py(ErrText)
                                        ELSE "PanicException",
            list   |-> blocks_list,
            called |-> <<bd>>]
      ELSE IF raw.len = 0
      THEN [raised |-> "none",
            list   |-> Append(blocks_list, [d EXCEPT !.kind = "Empty"]),
            called |-> <<bd>>]
      ELSE IF raw.len < TypeDetectMin
      THEN [raised |-> "none",
            list   |-> Append(blocks_list,
                              [d EXCEPT !.kind = "Unknown",
                                        !.parse_error = TooSmallMsg]),
            called |-> <<bd>>]
      ELSE [raised |-> "none",
            list   |-> Append(blocks_list,
                              parsed_block_dict(d, in.lib.try_parse[idx + 1])),
            called |-> <<bd, tp>>]

----------------------------------------------------------------------------
(* The document: parse_bom_document, lib.rs:279-384 *)

\* The dict created at lib.rs:287, nothing set.
NoDoc ==
    [keys         |-> {},
     nones        |-> {},
     byte_length  |-> 0,
     header       |-> [number_of_blocks |-> 0],
     blocks_index |-> [count |-> 0, entries |-> <<>>],
     variables    |-> <<>>,
     blocks       |-> <<>>,
     parse_errors |-> EmptyMap]

\* header_doc whose loop of lib.rs:313 stops one entry early.
header_doc_one_entry_short(in) ==
    LET b == in.lib.bom IN
    [NoDoc EXCEPT
       !.keys = {"format", "byte_length", "header", "blocks_index", "variables"},
       !.byte_length = in.data_len,
       !.header = [number_of_blocks |-> b.header.number_of_blocks],
       !.blocks_index =
           [count   |-> b.blocks.count,
            entries |-> [i \in 1..(Len(b.blocks.blocks) - 1) |->
                           [index       |-> i - 1,
                            file_offset |-> b.blocks.blocks[i].file_offset,
                            length      |-> b.blocks.blocks[i].length]]],
       !.variables = [i \in 1..Len(b.vars.vars) |-> [name |-> b.vars.vars[i]]]]

\* lib.rs:290-331: format, byte_length, header, blocks_index, variables.
\* (source_path and the header fields no property reads are left out.)
header_doc(in) ==
    LET b == in.lib.bom IN
    [NoDoc EXCEPT
       !.keys = {"format", "byte_length", "header", "blocks_index", "variables"},
       !.byte_length = in.data_len,
       !.header = [number_of_blocks |-> b.header.number_of_blocks],
       !.blocks_index =
           [count   |-> b.blocks.count,
            entries |-> [i \in 1..Len(b.blocks.blocks) |->
                           [index       |-> i - 1,
                            file_offset |-> b.blocks.blocks[i].file_offset,
                            length      |-> b.blocks.blocks[i].length]]],
       !.variables = [i \in 1..Len(b.vars.vars) |-> [name |-> b.vars.vars[i]]]]

\* lib.rs:333-360: the bom_info section.  st is [doc, parse_errors].
bom_info_section(st, func) ==
    LET r == safe_bom_call(func) IN
    CASE r.tag = "Value" ->
            [st EXCEPT !.doc = set_item(@, "bom_info")]
      [] r.tag = "MissingVariable" ->
            [st EXCEPT !.doc = set_none(@, "bom_info")]
      [] r.tag = "Error" ->
            [st EXCEPT !.doc = set_none(@, "bom_info"),
                       !.parse_errors = @ @@ ("bom_info" :> r.msg)]

\* parse_optional_path_section without the parse_errors.set_item of
\* lib.rs:272: the failure is not recorded.
parse_optional_path_section_unrecorded(st, name, parser) ==
    LET r == safe_bom_call(parser) IN
    CASE r.tag = "Value" ->
            [st EXCEPT !.doc = set_item(@, name)]
      [] r.tag = "MissingVariable" ->
            [st EXCEPT !.doc = set_none(@, name)]
      [] r.tag = "Error" ->
            [st EXCEPT !.doc = set_none(@, name)]

\* lib.rs:256-277
parse_optional_path_section(st, name, parser) ==
    LET r == safe_bom_call(parser) IN
    CASE r.tag = "Value" ->
            [st EXCEPT !.doc = set_item(@, name)]
      [] r.tag = "MissingVariable" ->
            [st EXCEPT !.doc = set_none(@, name)]
      [] r.tag = "Error" ->
            [st EXCEPT !.doc = set_none(@, name),
                       !.parse_errors = @ @@ (name :> r.msg)]

\* lib.rs:367-375: the blocks item once the dump is over
set_blocks(d, with_blocks, blocks_list) ==
    IF with_blocks
    THEN [set_item(d, "blocks") EXCEPT !.blocks = blocks_list]
    ELSE set_none(d, "blocks")

\* set_parse_errors without the test of lib.rs:377: the dict is always set.
set_parse_errors_always_dict(d, errs) ==
    [set_item(d, "parse_errors") EXCEPT !.parse_errors = errs]

\* lib.rs:377-381
set_parse_errors(d, errs) ==
    IF Cardinality(DOMAIN errs) = 0
    THEN set_none(d, "parse_errors")
    ELSE [set_item(d, "parse_errors") EXCEPT !.parse_errors = errs]

\* lib.rs:369-371: the dump loop from block idx on
RECURSIVE dump_blocks(_, _, _, _)
dump_blocks(in, idx, blocks_list, fault) ==
    IF idx >= Len(in.lib.bom.blocks.blocks)
    THEN [raised |-> "none", list |-> blocks_list]
    ELSE LET r == append_block_entry(in, idx, blocks_list, fault) IN
         IF r.raised # "none"
         THEN [raised |-> r.raised, list |-> r.list]
         ELSE dump_blocks(in, idx + 1, r.list, fault)

\* lib.rs:279-384 as a function of the input: the error raised ("none" if
\* none) and the document returned (NoDoc if an error is raised).
parse_bom_document(in, fault) ==
    IF in.lib.parse # "Ok"
    THEN [raised |-> bom_error_to_py(ErrText), doc |-> NoDoc]
    ELSE
      LET res == in.lib.resolver
          st0 == [doc |-> header_doc(in), parse_errors |-> EmptyMap]
          st1 == bom_info_section(st0, res["bom_info"])
          st2 == parse_optional_path_section(st1, "paths", res["paths"])
          st3 == parse_optional_path_section(st2, "hl_index", res["hl_index"])
          st4 == parse_optional_path_section(st3, "size64", res["size64"])
          st5 == parse_optional_path_section(st4, "vindex", res["vindex"])
          dump == IF in.include_blocks
                  THEN dump_blocks(in, 0, <<>>, fault)
                  ELSE [raised |-> "none", list |-> <<>>]
      IN
      IF dump.raised # "none"
      THEN [raised |-> dump.raised, doc |-> NoDoc]
      ELSE [raised |-> "none",
            doc    |-> set_parse_errors(
                           set_blocks(st5.doc, in.include_blocks, dump.list),
                           st5.parse_errors)]

----------------------------------------------------------------------------
(* The inputs of a decode *)

\* Declared lengths of a block: empty, too small for type detection, and
\* large enough for it.
Lengths == 0..TypeDetectMin

\* The buffer holds exactly one block of the largest length.
DataLen == TypeDetectMin

\* Declared offsets of a block: the start of the buffer or its end.  At the
\* end only a block of length 0 lies inside the buffer.
Offsets == {0, DataLen}

BlockEntries == [file_offset : Offsets, length : Lengths]

\* The blocks indexes of n entries
BlockTables(n) == [1..n -> BlockEntries]

\* The variables indexes of at most n entries: the section variables they
\* bind, in section order.
VarLists(n) ==
    {SelectSeq(SectionNames, LAMBDA name : name \in present) :
        present \in {p \in SUBSET Sections : Cardinality(p) <= n}}

Range(f) == {f[i] : i \in DOMAIN f}

\* header.number_of_blocks as BOM writers set it: the number of non-empty
\* blocks, which is not the number of entries of the blocks index.
NonEmptyBlocks(tbl) == Cardinality({i \in 1..Len(tbl) : tbl[i].length > 0})

\* BomBlock::try_parse is reached only for a block of at least
\* TypeDetectMin bytes that lies inside the buffer.
TryParseReached(data_len, entry) ==
    /\ block_data(data_len, entry).ok
    /\ entry.length >= TypeDetectMin

\* What the resolvers may answer: the missing-variable error exactly for the
\* sections whose variable the index does not bind.
ResolverAnswers(vl) ==
    {[s \in Sections |-> IF s \in Range(vl) THEN r[s] ELSE "NoVar"] :
        r \in [Range(vl) -> ResolverOutcomes \ {"NoVar"}]}

\* What BomBlock::try_parse may answer on each block it is reached for
\* ("NotCalled" marks the blocks it is never called on).
TryParseAnswers(data_len, tbl) ==
    {[i \in 1..Len(tbl) |-> IF i \in DOMAIN t THEN t[i] ELSE "NotCalled"] :
        t \in [{i \in 1..Len(tbl) : TryParseReached(data_len, tbl[i])}
                 -> TryParseOutcomes]}

\* What the library may answer for a buffer of data_len bytes whose parse
\* succeeds with the blocks index tbl and the variables index vl.
LibAnswers(data_len, tbl, vl) ==
    {[parse     |-> "Ok",
      bom       |-> [header |-> [number_of_blocks |-> NonEmptyBlocks(tbl)],
                     blocks |-> [count |-> Len(tbl), blocks |-> tbl],
                     vars   |-> [vars |-> vl]],
      resolver  |-> res,
      try_parse |-> tp] :
        res \in ResolverAnswers(vl), tp \in TryParseAnswers(data_len, tbl)}

\* The library's answer when ParsedBom::parse fails: there is no ParsedBom.
LibParseFailed ==
    [parse     |-> "Err",
     bom       |-> [header |-> [number_of_blocks |-> 0],
                    blocks |-> [count |-> 0, blocks |-> <<>>],
                    vars   |-> [vars |-> <<>>]],
     resolver  |-> [s \in Sections |-> "NoVar"],
     try_parse |-> <<>>]

\* The input of the decode in progress
Input ==
    [data_len                |-> data.len,
     include_blocks          |-> include_blocks,
     include_raw_block_bytes |-> include_raw_block_bytes,
     lib                     |-> lib]

----------------------------------------------------------------------------
(* The state machine *)

Init ==
    /\ data = [len |-> DataLen]
    /\ include_blocks \in BOOLEAN
    /\ include_raw_block_bytes \in BOOLEAN
    /\ \/ lib = LibParseFailed
       \/ \E n \in 0..MaxEntries :
            \E tbl \in BlockTables(n), vl \in VarLists(MaxEntries - n) :
                lib \in LibAnswers(DataLen, tbl, vl)
    /\ pc = "parse"
    /\ doc = NoDoc
    /\ parse_errors = EmptyMap
    /\ blocks = <<>>
    /\ index = 0
    /\ raised = "none"
    /\ calls = <<>>

Call(op) == [op |-> op, index |-> -1]

\* Parse without the ? of lib.rs:286: the decode goes on after a failed parse.
Parse_without_propagation ==
    /\ pc = "parse"
    /\ calls' = Append(calls, Call("parse"))
    /\ pc' = "header"
    /\ raised' = raised
    /\ UNCHANGED <<inputs, doc, parse_errors, blocks, index>>

\* lib.rs:286: ParsedBom::parse(data).map_err(bom_error_to_py)?
Parse ==
    /\ pc = "parse"
    /\ calls' = Append(calls, Call("parse"))
    /\ IF lib.parse = "Ok"
       THEN /\ pc' = "header"
            /\ raised' = raised
       ELSE /\ pc' = "raised"
            /\ raised' = bom_error_to_py(ErrText)
    /\ UNCHANGED <<inputs, doc, parse_errors, blocks, index>>

\* lib.rs:287-331
Header ==
    /\ pc = "header"
    /\ doc' = header_doc(Input)
    /\ pc' = "bom_info"
    /\ UNCHANGED <<inputs, parse_errors, blocks, index, raised, calls>>

\* The section attempted after name
NextSection(name) ==
    CASE name = "bom_info" -> "paths"
      [] name = "paths"    -> "hl_index"
      [] name = "hl_index" -> "size64"
      [] name = "size64"   -> "vindex"
      [] name = "vindex"   -> "blocks"

\* lib.rs:333-360
BomInfo ==
    /\ pc = "bom_info"
    /\ LET st == bom_info_section([doc |-> doc, parse_errors |-> parse_errors],
                                  lib.resolver["bom_info"])
       IN /\ doc' = st.doc
          /\ parse_errors' = st.parse_errors
    /\ calls' = Append(calls, Call("bom_info"))
    /\ pc' = NextSection("bom_info")
    /\ UNCHANGED <<inputs, blocks, index, raised>>

\* lib.rs:362-365
PathSection(name) ==
    /\ pc = name
    /\ LET st == parse_optional_path_section(
                     [doc |-> doc, parse_errors |-> parse_errors],
                     name, lib.resolver[name])
       IN /\ doc' = st.doc
          /\ parse_errors' = st.parse_errors
    /\ calls' = Append(calls, Call(name))
    /\ pc' = NextSection(name)
    /\ UNCHANGED <<inputs, blocks, index, raised>>

\* lib.rs:369-371: one iteration of the dump loop
AppendBlock ==
    /\ pc = "blocks"
    /\ include_blocks
    /\ index < Len(lib.bom.blocks.blocks)
    /\ \E fault \in {"Err", "Panic"} :
         LET r == append_block_entry(Input, index, blocks, fault) IN
         /\ blocks' = r.list
         /\ calls' = calls \o r.called
         /\ raised' = r.raised
         /\ IF r.raised = "none"
            THEN /\ index' = index + 1
                 /\ pc' = pc
            ELSE /\ index' = index
                 /\ pc' = "raised"
    /\ UNCHANGED <<inputs, doc, parse_errors>>

\* lib.rs:367-383: the end of the dump, parse_errors, Ok(doc)
Finish ==
    /\ pc = "blocks"
    /\ include_blocks => index = Len(lib.bom.blocks.blocks)
    /\ doc' = set_parse_errors(set_blocks(doc, include_blocks, blocks), parse_errors)
    /\ pc' = "done"
    /\ UNCHANGED <<inputs, parse_errors, blocks, index, raised, calls>>

Next ==
    \/ Parse
    \/ Header
    \/ BomInfo
    \/ \E name \in PathSections : PathSection(name)
    \/ AppendBlock
    \/ Finish

Spec == Init /\ [][Next]_vars

----------------------------------------------------------------------------
(* The stepwise decode and the function agree. *)

StepsAgree ==
    /\ pc = "done" =>
          \A f \in {"Err", "Panic"} :
              parse_bom_document(Input, f) = [raised |-> "none", doc |-> doc]
    /\ pc = "raised" =>
          \E f \in {"Err", "Panic"} : parse_bom_document(Input, f).raised = raised

----------------------------------------------------------------------------
(* Vocabulary of the properties *)

Table == lib.bom.blocks.blocks

EndOf(entry) == entry.file_offset + entry.length

\* The sections whose resolver failed with something other than a missing
\* variable.
FailedSections == {s \in Sections : lib.resolver[s] \in {"Err", "Panic"}}

\* The diagnostic recorded for a failed resolver
Diagnostic(outcome) ==
    IF outcome = "Err" THEN ErrText
    ELSE "apple-bom parser panicked: " \o LibPanic.text

Attempted(s) == Call(s) \in Range(calls)

BlockDataCall(i) == [op |-> "block_data", index |-> i]

TryParseCall(i) == [op |-> "try_parse", index |-> i]

\* The block indexes block_data was called with, in call order
Visited == 
    LET bd == SelectSeq(calls, LAMBDA c : c.op = "block_data")
    IN  [i \in 1..Len(bd) |-> bd[i].index]

----------------------------------------------------------------------------
(* C1: whenever ParsedBom::parse returns Ok, parse_bom_document returns a  *)
(* document and raises no error, whatever the flags and the blocks are,    *)
(* a block entry lying outside the buffer included.                        *)
C1_ParsedInputNeverRaises ==
    lib.parse = "Ok" => raised = "none"

(* C2: when ParsedBom::parse fails, parse_bom_document raises one          *)
(* BomParseError and nothing else happens: no document field is set, no    *)
(* section resolver runs and no block is decoded.                          *)
C2_ParseFailureRaisesOnly ==
    lib.parse # "Ok" =>
        /\ pc \in {"parse", "raised"}
        /\ doc = NoDoc
        /\ parse_errors = EmptyMap
        /\ blocks = <<>>
        /\ pc = "parse" => raised = "none" /\ calls = <<>>
        /\ pc = "raised" => raised = "BomParseError" /\ calls = <<Call("parse")>>

C2_Witness ==
    lib.parse # "Ok" /\ pc = "raised"

(* C3: a section whose resolver returns the missing-variable error is set  *)
(* to None and gets no parse_errors entry; when all five are missing,      *)
(* parse_errors itself is None in the returned document.                   *)
C3_MissingVariableIsNotAnError ==
    /\ \A s \in Sections :
          (lib.resolver[s] = "NoVar" /\ Attempted(s)) =>
              /\ s \in doc.keys
              /\ s \in doc.nones
              /\ s \notin DOMAIN parse_errors
              /\ pc = "done" => s \notin DOMAIN doc.parse_errors
    /\ (pc = "done" /\ \A s \in Sections : lib.resolver[s] = "NoVar") =>
          /\ Sections \subseteq doc.nones
          /\ "parse_errors" \in doc.nones

C3_Witness ==
    /\ pc = "done"
    /\ lib.resolver["paths"] = "NoVar"
    /\ "paths" \in doc.nones
    /\ DOMAIN doc.parse_errors = {"bom_info"}

C4_SectionFailureIsRecordedAndIsolated ==
    \A s \in FailedSections :
        /\ Attempted(s) =>
              /\ s \in doc.nones
              /\ s \in DOMAIN parse_errors
              /\ parse_errors[s] = Diagnostic(lib.resolver[s])
        /\ pc \in {"done", "raised"} =>
              /\ \A t \in Sections : Attempted(t)
              /\ (include_blocks /\ Len(Table) > 0) => BlockDataCall(0) \in Range(calls)
              /\ \A f \in {"Err", "Panic"} :
                    LET other == parse_bom_document(
                                     [Input EXCEPT !.lib.resolver[s] = "Value"], f)
                    IN  /\ (other.raised = "none") <=> (pc = "done")
                        /\ pc = "done" =>
                              /\ doc.parse_errors[s] = Diagnostic(lib.resolver[s])
                              /\ doc.keys = other.doc.keys
                              /\ doc.nones \ {s, "parse_errors"}
                                    = other.doc.nones \ {s, "parse_errors"}
                              /\ doc.blocks = other.doc.blocks
                              /\ \A t \in Sections \ {s} :
                                    /\ (t \in DOMAIN doc.parse_errors)
                                          <=> (t \in DOMAIN other.doc.parse_errors)
                                    /\ t \in DOMAIN doc.parse_errors =>
                                          doc.parse_errors[t] = other.doc.parse_errors[t]

C4_Witness ==
    /\ pc = "done"
    /\ include_blocks
    /\ lib.resolver["bom_info"] = "Panic"
    /\ lib.resolver["size64"] = "Value"
    /\ "bom_info" \in doc.nones
    /\ "size64" \in doc.keys \ doc.nones
    /\ Len(doc.blocks) > 0

(* C6: in the block dump, every block whose index entry has length 1, 2 or *)
(* 3 is reported with kind "Unknown" and the "too small" parse_error,      *)
(* BomBlock::try_parse is never called on it, and decoding it never raises *)
(* an error to the caller.                                                 *)
C6_TooSmallIsUnknownAndNeverRaises ==
    \A i \in 0..(Len(Table) - 1) :
        (Table[i + 1].length \in 1..(TypeDetectMin - 1)
            /\ BlockDataCall(i) \in Range(calls)) =>
                /\ ~(pc = "raised" /\ index = i)
                /\ TryParseCall(i) \notin Range(calls)
                /\ Len(blocks) > i
                /\ blocks[i + 1].kind = "Unknown"
                /\ blocks[i + 1].parse_error = TooSmallMsg

(* C7: fault isolation between blocks.  Take a decode that returned a      *)
(* document for a buffer holding every block, and the same input with the  *)
(* buffer cut one byte short of the end of exactly one block k (the        *)
(* sections in D, which depend on k, now fail).  The second decode still   *)
(* returns a document; block k is Unknown with a diagnostic, every other   *)
(* block entry and every section outside D is the same.                    *)
C7_TruncatedBlockIsIsolated ==
    (pc = "done" /\ \A j \in 1..Len(Table) : EndOf(Table[j]) <= data.len) =>
        \A k \in 1..Len(Table) :
            LET cut == EndOf(Table[k]) - 1 IN
            (Table[k].length > 0
                /\ \A j \in 1..Len(Table) \ {k} : EndOf(Table[j]) <= cut) =>
                    \A D \in SUBSET Range(lib.bom.vars.vars), f \in {"Err", "Panic"} :
                        LET in2 == [Input EXCEPT
                                      !.data_len = cut,
                                      !.lib.try_parse[k] = "NotCalled",
                                      !.lib.resolver =
                                          [s \in Sections |->
                                              IF s \in D THEN "Err" ELSE @[s]]]
                            two == parse_bom_document(in2, f)
                        IN  /\ two.raised = "none"
                            /\ doc.keys = two.doc.keys
                            /\ doc.nones \ (D \cup {"parse_errors"})
                                  = two.doc.nones \ (D \cup {"parse_errors"})
                            /\ include_blocks =>
                                  /\ Len(two.doc.blocks) = Len(doc.blocks)
                                  /\ two.doc.blocks[k].kind = "Unknown"
                                  /\ two.doc.blocks[k].parse_error # ""
                                  /\ \A j \in 1..Len(Table) \ {k} :
                                        two.doc.blocks[j] = doc.blocks[j]

(* C8: in every returned document the number of entries of                 *)
(* blocks_index.entries equals header.number_of_blocks, and every entry    *)
(* has file_offset + length <= byte_length.                                *)
C8_EntriesMatchHeaderAndBuffer ==
    pc = "done" =>
        /\ Len(doc.blocks_index.entries) = doc.header.number_of_blocks
        /\ \A i \in 1..Len(doc.blocks_index.entries) :
              EndOf(doc.blocks_index.entries[i]) <= doc.byte_length

(* C8 as amended: in every returned document the number of entries of      *)
(* blocks_index.entries equals blocks_index.count, the entry count of the  *)
(* parsed blocks index (header.number_of_blocks is copied unchecked and    *)
(* may differ); entry i carries index i and the offset and length of the   *)
(* index; and when include_blocks is true every entry has                  *)
(* file_offset + length <= byte_length (with include_blocks false the      *)
(* ranges are never looked at).                                            *)
C8_EntriesMatchIndex ==
    pc = "done" =>
        /\ Len(doc.blocks_index.entries) = doc.blocks_index.count
        /\ \A i \in 1..Len(doc.blocks_index.entries) :
              /\ doc.blocks_index.entries[i].index = i - 1
              /\ doc.blocks_index.entries[i].file_offset = Table[i].file_offset
              /\ doc.blocks_index.entries[i].length = Table[i].length
        /\ include_blocks =>
              \A i \in 1..Len(doc.blocks_index.entries) :
                  EndOf(doc.blocks_index.entries[i]) <= doc.byte_length

C8_Witness ==
    /\ pc = "done"
    /\ include_blocks
    /\ Len(doc.blocks_index.entries) = 2
    /\ doc.header.number_of_blocks # Len(doc.blocks_index.entries)

(* C9: in every returned document parse_errors is None exactly when no     *)
(* section failed; otherwise it is a non-empty mapping whose keys are      *)
(* exactly the sections whose resolver failed with something other than a  *)
(* missing variable.                                                       *)
C9_ParseErrorsKeys ==
    pc = "done" =>
        /\ "parse_errors" \in doc.keys
        /\ ("parse_errors" \in doc.nones) <=> (FailedSections = {})
        /\ DOMAIN doc.parse_errors = FailedSections
        /\ \A s \in FailedSections : doc.parse_errors[s] # ""

C9_Witness ==
    /\ pc = "done"
    /\ Cardinality(DOMAIN doc.parse_errors) = 2
    /\ \E s \in Sections : lib.resolver[s] = "NoVar"
    /\ \E i \in 1..Len(doc.blocks) : doc.blocks[i].kind = "Unknown"

(* C10: in every decode that gets past ParsedBom::parse the five resolvers *)
(* are each called once, in the order bom_info, paths, hl_index, size64,   *)
(* vindex, before any block is decoded; the dump runs iff include_blocks   *)
(* is true and then visits every index position 0..n-1 once, in increasing *)
(* order, producing one entry per position; blocks is None when            *)
(* include_blocks is false.                                                *)
C10_SectionsThenEveryBlock ==
    (lib.parse = "Ok" /\ pc \in {"done", "raised"}) =>
        /\ Len(calls) >= 6
        /\ SubSeq(calls, 1, 6) =
              <<Call("parse"), Call("bom_info"), Call("paths"),
                Call("hl_index"), Call("size64"), Call("vindex")>>
        /\ \A i \in 7..Len(calls) : calls[i].op \in {"block_data", "try_parse"}
        /\ include_blocks =>
              /\ Visited = [i \in 1..Len(Table) |-> i - 1]
              /\ Len(blocks) = Len(Table)
              /\ \A i \in 1..Len(blocks) : blocks[i].index = i - 1
        /\ ~include_blocks =>
              /\ Visited = <<>>
              /\ pc = "done" => "blocks" \in doc.nones

====
